---------------------------- MODULE Spec2Model ----------------------------
(***************************************************************************)
(* A model of logic_parser.cpp: tokenizer, infix-to-prefix conversion,     *)
(* parse-tree construction on a heap of nodes, rendering, evaluation, the  *)
(* truth table, the three CNF passes, clause extraction and the clause     *)
(* validity analysis.                                                      *)
(*                                                                         *)
(* A C++ string is a sequence of one-character strings, so "a_1" is        *)
(* <<"a", "_", "1">>.  A pointer is an index into the sequence heap, and   *)
(* the null pointer is 0.                                                   *)
(***************************************************************************)
EXTENDS Integers, Sequences, FiniteSets, TLC

VARIABLES
    pc,            \* position of the run in main()
    expr,          \* infix_expr, the text handed to infixToPrefix
    tokens,        \* the local `tokens` of infixToPrefix, before the reversal
    prefix,        \* prefix_tokens
    heap,          \* every Node allocated with new, in allocation order
    root,          \* the pointer buildParseTree returned
    inOrder,       \* toInfix(root)
    assignment,    \* the atom -> bool map handed to evaluate
    result,        \* what evaluate did: a boolean, or the out_of_range throw
    cnfRoot,       \* the pointer convertToCNF returned
    table,         \* what generateTruthTable printed: header and rows
    clauses,       \* vector<vector<string>> filled by collectClauses
    valid_count,
    invalid_count,
    all_valid      \* the verdict analyzeCNFValidity returned

vars == <<pc, expr, tokens, prefix, heap, root, inOrder, assignment, result,
          table, cnfRoot, clauses, valid_count, invalid_count, all_valid>>

-----------------------------------------------------------------------------
(* Bounds of the model. *)

\* longest raw input text, in characters
MaxLen == 5
\* largest formula (in tree nodes) whose rendering is used as input text
MaxNodes == 7
\* longest prefix token sequence handed directly to buildParseTree
MaxTokens == 5
\* most literals, over all its clauses, in a clause list handed directly to
\* analyzeCNFValidity
MaxLits == 3
\* most clauses in a list handed directly to analyzeCNFValidity
MaxClauses == 2
\* largest formula (in tree nodes) over three atoms handed to
\* generateTruthTable
MaxTableNodes == 5
\* most distinct atoms in a formula handed to generateTruthTable
MaxAtoms == 32

\* the width of int
IntBits == 32

-----------------------------------------------------------------------------
(* Characters and strings. *)

\* the characters isspace() accepts (the vertical tab has no TLA+ escape)
SpaceChars == {" ", "\t", "\n", "\f", "\r"}

\* the characters isalnum() accepts in the C locale
AlnumChars ==
    {"a","b","c","d","e","f","g","h","i","j","k","l","m","n","o","p","q","r",
     "s","t","u","v","w","x","y","z",
     "A","B","C","D","E","F","G","H","I","J","K","L","M","N","O","P","Q","R",
     "S","T","U","V","W","X","Y","Z",
     "0","1","2","3","4","5","6","7","8","9"}

isspace(c) == c \in SpaceChars

isalnum(c) == c \in AlnumChars

Reverse(s) == [i \in 1..Len(s) |-> s[Len(s) + 1 - i]]

NULL == 0

isOperator(s) == s = <<"*">> \/ s = <<"+">> \/ s = <<">">> \/ s = <<"~">>

precedence_swapped(op) ==
    IF op = <<"~">> THEN 3
    ELSE IF op = <<"*">> THEN 1
    ELSE IF op = <<"+">> THEN 2
    ELSE IF op = <<">">> THEN 0
    ELSE -1

precedence(op) ==
    IF op = <<"~">> THEN 3
    ELSE IF op = <<"*">> THEN 2
    ELSE IF op = <<"+">> THEN 1
    ELSE IF op = <<">">> THEN 0
    ELSE -1

-----------------------------------------------------------------------------
(* tokenize *)

\* the inner while loop: the first index at or after i that ends the run
RECURSIVE AtomEnd(_, _)
AtomEnd(s, i) ==
    IF i <= Len(s) /\ (isalnum(s[i]) \/ s[i] = "_")
    THEN AtomEnd(s, i + 1)
    ELSE i

\* the for loop of tokenize, from index i with the tokens pushed so far
RECURSIVE TokenizeFrom(_, _, _)
TokenizeFrom(s, i, toks) ==
    IF i > Len(s) THEN toks
    ELSE IF isspace(s[i]) THEN TokenizeFrom(s, i + 1, toks)
    ELSE IF isalnum(s[i])
         THEN LET j == AtomEnd(s, i)
              IN  TokenizeFrom(s, j, Append(toks, SubSeq(s, i, j - 1)))
         ELSE TokenizeFrom(s, i + 1, Append(toks, <<s[i]>>))

tokenize(s) == TokenizeFrom(s, 1, <<>>)

-----------------------------------------------------------------------------
(* infixToPrefix *)

\* the parentheses left as they are after the reversal
SwapParen_none(t) == t

SwapParen(t) ==
    IF t = <<"(">> THEN <<")">>
    ELSE IF t = <<")">> THEN <<"(">>
    ELSE t

\* while (!ops.empty() && ops.top() != "(") pop to output; the top is the
\* last element of ops
RECURSIVE PopToParen(_, _)
PopToParen(ops, output) ==
    IF ops # <<>> /\ ops[Len(ops)] # <<"(">>
    THEN PopToParen(SubSeq(ops, 1, Len(ops) - 1), Append(output, ops[Len(ops)]))
    ELSE [ops |-> ops, output |-> output]

\* while (!ops.empty() && precedence(ops.top()) > precedence(token)) pop
RECURSIVE PopHigher(_, _, _)
PopHigher(ops, output, token) ==
    IF ops # <<>> /\ precedence(ops[Len(ops)]) > precedence(token)
    THEN PopHigher(SubSeq(ops, 1, Len(ops) - 1),
                   Append(output, ops[Len(ops)]), token)
    ELSE [ops |-> ops, output |-> output]

\* the final while (!ops.empty()): everything left on ops goes to output,
\* top first
RECURSIVE PopAll(_, _)
PopAll(ops, output) ==
    IF ops # <<>>
    THEN PopAll(SubSeq(ops, 1, Len(ops) - 1), Append(output, ops[Len(ops)]))
    ELSE output

\* the for loop over the reversed, swapped tokens
RECURSIVE ShuntFrom(_, _, _, _)
ShuntFrom(toks, i, ops, output) ==
    IF i > Len(toks) THEN PopAll(ops, output)
    ELSE LET token == toks[i] IN
         IF isalnum(token[1])
         THEN ShuntFrom(toks, i + 1, ops, Append(output, token))
         ELSE IF token = <<"(">>
         THEN ShuntFrom(toks, i + 1, Append(ops, token), output)
         ELSE IF token = <<")">>
         THEN LET p == PopToParen(ops, output)
                  rest == IF p.ops # <<>>
                          THEN SubSeq(p.ops, 1, Len(p.ops) - 1)
                          ELSE p.ops
              IN  ShuntFrom(toks, i + 1, rest, p.output)
         ELSE IF isOperator(token)
         THEN LET p == PopHigher(ops, output, token)
              IN  ShuntFrom(toks, i + 1, Append(p.ops, token), p.output)
         ELSE ShuntFrom(toks, i + 1, ops, output)

infixToPrefixTokens(toks) ==
    LET rev == Reverse(toks)
        swapped == [i \in 1..Len(rev) |-> SwapParen(rev[i])]
    IN  Reverse(ShuntFrom(swapped, 1, <<>>, <<>>))

infixToPrefix(s) == infixToPrefixTokens(tokenize(s))

-----------------------------------------------------------------------------
(* struct Node and the heap *)

Node(val, l, r) == [value |-> val, left |-> l, right |-> r]

\* new Node(...): the node is appended to the heap and its index is its address
Alloc(h, node) == Append(h, node)

isLeaf(h, p) == h[p].left = NULL /\ h[p].right = NULL

Top(st) == st[Len(st)]

Pop(st) == SubSeq(st, 1, Len(st) - 1)

-----------------------------------------------------------------------------
(* buildParseTree *)

\* the for loop of buildParseTree from index i down to the first token; the
\* result is the heap and the returned pointer (NULL for nullptr)
RECURSIVE BuildFrom(_, _, _, _)
BuildFrom(pre, i, h, st) ==
    IF i < 1
    THEN [heap |-> h, ret |-> IF Len(st) # 1 THEN NULL ELSE Top(st)]
    ELSE LET token == pre[i] IN
         IF isOperator(token)
         THEN LET h1 == Alloc(h, Node(token, NULL, NULL))
                  node == Len(h1)
              IN  IF token = <<"~">>
                  THEN IF st = <<>>
                       THEN [heap |-> h1, ret |-> NULL]
                       ELSE BuildFrom(pre, i - 1,
                                      [h1 EXCEPT ![node].left = Top(st)],
                                      Append(Pop(st), node))
                  ELSE IF Len(st) < 2
                       THEN [heap |-> h1, ret |-> NULL]
                       ELSE BuildFrom(pre, i - 1,
                                      [h1 EXCEPT ![node].left = Top(st),
                                                 ![node].right = Top(Pop(st))],
                                      Append(Pop(Pop(st)), node))
         ELSE LET h1 == Alloc(h, Node(token, NULL, NULL))
              IN  BuildFrom(pre, i - 1, h1, Append(st, Len(h1)))

\* the same loop with the two pops of a binary operator assigned the other
\* way round
RECURSIVE BuildFrom_swapped(_, _, _, _)
BuildFrom_swapped(pre, i, h, st) ==
    IF i < 1
    THEN [heap |-> h, ret |-> IF Len(st) # 1 THEN NULL ELSE Top(st)]
    ELSE LET token == pre[i] IN
         IF isOperator(token)
         THEN LET h1 == Alloc(h, Node(token, NULL, NULL))
                  node == Len(h1)
              IN  IF token = <<"~">>
                  THEN IF st = <<>>
                       THEN [heap |-> h1, ret |-> NULL]
                       ELSE BuildFrom_swapped(pre, i - 1,
                                      [h1 EXCEPT ![node].left = Top(st)],
                                      Append(Pop(st), node))
                  ELSE IF Len(st) < 2
                       THEN [heap |-> h1, ret |-> NULL]
                       ELSE BuildFrom_swapped(pre, i - 1,
                                      [h1 EXCEPT ![node].right = Top(st),
                                                 ![node].left = Top(Pop(st))],
                                      Append(Pop(Pop(st)), node))
         ELSE LET h1 == Alloc(h, Node(token, NULL, NULL))
              IN  BuildFrom_swapped(pre, i - 1, h1, Append(st, Len(h1)))

buildParseTree_swapped(h, pre) == BuildFrom_swapped(pre, Len(pre), h, <<>>)

buildParseTree(h, pre) == BuildFrom(pre, Len(pre), h, <<>>)

-----------------------------------------------------------------------------
(* toInfix *)

\* a binary node rendered with its right child first
RECURSIVE toInfix_swapped(_, _)
toInfix_swapped(h, p) ==
    IF p = NULL THEN <<>>
    ELSE IF isLeaf(h, p) THEN h[p].value
    ELSE IF h[p].value = <<"~">>
    THEN <<"(", "~">> \o toInfix_swapped(h, h[p].left) \o <<")">>
    ELSE <<"(">> \o toInfix_swapped(h, h[p].right) \o <<" ">> \o h[p].value
         \o <<" ">> \o toInfix_swapped(h, h[p].left) \o <<")">>

RECURSIVE toInfix(_, _)
toInfix(h, p) ==
    IF p = NULL THEN <<>>
    ELSE IF isLeaf(h, p) THEN h[p].value
    ELSE IF h[p].value = <<"~">>
    THEN <<"(", "~">> \o toInfix(h, h[p].left) \o <<")">>
    ELSE <<"(">> \o toInfix(h, h[p].left) \o <<" ">> \o h[p].value \o <<" ">>
         \o toInfix(h, h[p].right) \o <<")">>

-----------------------------------------------------------------------------
(* evaluate / evaluateNode: the same recursion; values.at() throws
   std::out_of_range for an atom that is not a key of the map, and && and ||
   evaluate their right operand only when the left one does not decide *)

Value(b) == [status |-> "value", val |-> b]

Thrown == [status |-> "throw", val |-> FALSE]

NoResult == [status |-> "none", val |-> FALSE]

Not(r) == IF r.status = "value" THEN Value(~r.val) ELSE r

RECURSIVE evaluate_default(_, _, _)
evaluate_default(h, p, values) ==
    IF isLeaf(h, p)
    THEN IF h[p].value \in DOMAIN values
         THEN Value(values[h[p].value])
         ELSE Value(FALSE)
    ELSE IF h[p].value = <<"~">>
    THEN Not(evaluate_default(h, h[p].left, values))
    ELSE IF h[p].value = <<"*">>
    THEN LET l == evaluate_default(h, h[p].left, values)
         IN  IF l.status = "value" /\ l.val
             THEN evaluate_default(h, h[p].right, values)
             ELSE l
    ELSE IF h[p].value = <<"+">>
    THEN LET l == evaluate_default(h, h[p].left, values)
         IN  IF l.status = "value" /\ ~l.val
             THEN evaluate_default(h, h[p].right, values)
             ELSE l
    ELSE IF h[p].value = <<">">>
    THEN LET l == Not(evaluate_default(h, h[p].left, values))
         IN  IF l.status = "value" /\ ~l.val
             THEN evaluate_default(h, h[p].right, values)
             ELSE l
    ELSE Value(FALSE)

RECURSIVE evaluate(_, _, _)
evaluate(h, p, values) ==
    IF isLeaf(h, p)
    THEN IF h[p].value \in DOMAIN values
         THEN Value(values[h[p].value])
         ELSE Thrown
    ELSE IF h[p].value = <<"~">>
    THEN Not(evaluate(h, h[p].left, values))
    ELSE IF h[p].value = <<"*">>
    THEN LET l == evaluate(h, h[p].left, values)
         IN  IF l.status = "value" /\ l.val
             THEN evaluate(h, h[p].right, values)
             ELSE l
    ELSE IF h[p].value = <<"+">>
    THEN LET l == evaluate(h, h[p].left, values)
         IN  IF l.status = "value" /\ ~l.val
             THEN evaluate(h, h[p].right, values)
             ELSE l
    ELSE IF h[p].value = <<">">>
    THEN LET l == Not(evaluate(h, h[p].left, values))
         IN  IF l.status = "value" /\ ~l.val
             THEN evaluate(h, h[p].right, values)
             ELSE l
    ELSE Value(FALSE)

-----------------------------------------------------------------------------
(* collectAtoms: the names of the leaves that are not operators *)

RECURSIVE collectAtoms(_, _)
collectAtoms(h, p) ==
    IF p = NULL THEN {}
    ELSE (IF isLeaf(h, p) /\ ~isOperator(h[p].value) THEN {h[p].value} ELSE {})
         \cup collectAtoms(h, h[p].left) \cup collectAtoms(h, h[p].right)

-----------------------------------------------------------------------------
(* generateTruthTable *)

\* the printable characters in ascending order of their codes (without the
\* grave accent, which a TLA+ string cannot hold)
CharsInOrder ==
    <<" ", "!", "\"", "#", "$", "%", "&", "'", "(", ")", "*", "+", ",", "-",
      ".", "/", "0", "1", "2", "3", "4", "5", "6", "7", "8", "9", ":", ";",
      "<", "=", ">", "?", "@",
      "A", "B", "C", "D", "E", "F", "G", "H", "I", "J", "K", "L", "M", "N",
      "O", "P", "Q", "R", "S", "T", "U", "V", "W", "X", "Y", "Z",
      "[", "\\", "]", "^", "_",
      "a", "b", "c", "d", "e", "f", "g", "h", "i", "j", "k", "l", "m", "n",
      "o", "p", "q", "r", "s", "t", "u", "v", "w", "x", "y", "z",
      "{", "|", "}", "~">>

CharCode(c) == CHOOSE k \in 1..Len(CharsInOrder) : CharsInOrder[k] = c

\* s < t for std::string: at the first difference the smaller character
\* decides, and a proper prefix is smaller
StringLess(s, t) ==
    \E k \in 1..(Len(t)) :
        /\ k <= Len(s) + 1
        /\ \A m \in 1..(k - 1) : s[m] = t[m]
        /\ \/ k = Len(s) + 1
           \/ CharCode(s[k]) < CharCode(t[k])

\* the elements of a std::set<string> from begin() to end()
RECURSIVE SetToVector(_)
SetToVector(S) ==
    IF S = {} THEN <<>>
    ELSE LET first == CHOOSE x \in S : \A y \in S \ {x} : StringLess(x, y)
         IN  <<first>> \o SetToVector(S \ {first})

\* the int 1 << n.  Up to IntBits - 2 it is 2^n; 1 << (IntBits - 1) is the
\* most negative int; a count of IntBits or more is undefined, and a build
\* either takes the count modulo IntBits (masked) or shifts the bit out
RECURSIVE ShiftLeftOne(_, _)
ShiftLeftOne(n, masked) ==
    IF n < IntBits - 1 THEN 2 ^ n
    ELSE IF n = IntBits - 1 THEN (-(2 ^ (IntBits - 2))) - 2 ^ (IntBits - 2)
    ELSE IF masked THEN ShiftLeftOne(n % IntBits, masked)
    ELSE 0

\* the int i >> s for i >= 0.  A count of IntBits or more is undefined, and
\* a build either takes the count modulo IntBits (masked) or shifts every
\* bit out
RECURSIVE ShiftRight(_, _, _)
ShiftRight(i, s, masked) ==
    IF s < IntBits - 1 THEN i \div (2 ^ s)
    ELSE IF s = IntBits - 1 THEN 0
    ELSE IF masked THEN ShiftRight(i, s % IntBits, masked)
    ELSE 0

RECURSIVE evaluateNode(_, _, _)
evaluateNode(h, p, values) ==
    IF isLeaf(h, p)
    THEN IF h[p].value \in DOMAIN values
         THEN Value(values[h[p].value])
         ELSE Thrown
    ELSE IF h[p].value = <<"~">>
    THEN Not(evaluateNode(h, h[p].left, values))
    ELSE IF h[p].value = <<"*">>
    THEN LET l == evaluateNode(h, h[p].left, values)
         IN  IF l.status = "value" /\ l.val
             THEN evaluateNode(h, h[p].right, values)
             ELSE l
    ELSE IF h[p].value = <<"+">>
    THEN LET l == evaluateNode(h, h[p].left, values)
         IN  IF l.status = "value" /\ ~l.val
             THEN evaluateNode(h, h[p].right, values)
             ELSE l
    ELSE IF h[p].value = <<">">>
    THEN LET l == Not(evaluateNode(h, h[p].left, values))
         IN  IF l.status = "value" /\ ~l.val
             THEN evaluateNode(h, h[p].right, values)
             ELSE l
    ELSE Value(FALSE)

NoTable == [atoms |-> <<>>, rows |-> <<>>]

\* one pass of the body of the loop over i: the values printed for the
\* atoms, the unordered_map they were stored in, and the result printed
Row(h, p, atoms, i, masked) ==
    LET n    == Len(atoms)
        vals == [j \in 1..n |-> ShiftRight(i, n - (j - 1) - 1, masked) % 2 = 1]
        asg  == [a \in {atoms[j] : j \in 1..n} |->
                    vals[CHOOSE j \in 1..n : atoms[j] = a]]
    IN  [vals |-> vals, assignment |-> asg,
         result |-> evaluateNode(h, p, asg)]

generateTruthTable(h, p, masked) ==
    IF p = NULL THEN NoTable
    ELSE LET atoms == SetToVector(collectAtoms(h, p))
             n     == Len(atoms)
         IN  IF n = 0 THEN NoTable
             ELSE LET total == ShiftLeftOne(n, masked)
                  IN  [atoms |-> atoms,
                       rows  |-> IF total <= 0 THEN <<>>
                                 ELSE [k \in 1..total |->
                                          Row(h, p, atoms, k - 1, masked)]]

-----------------------------------------------------------------------------
(* The three CNF passes.  Each takes the heap and a pointer and gives the
   heap after its assignments and allocations, and the pointer it returns. *)

\* A > B rewritten to A + B: the new ~ node is left out
RECURSIVE eliminateImplications_noNot(_, _)
eliminateImplications_noNot(h, p) ==
    IF p = NULL \/ isLeaf(h, p) THEN [heap |-> h, ret |-> p]
    ELSE LET l  == eliminateImplications_noNot(h, h[p].left)
             h1 == [l.heap EXCEPT ![p].left = l.ret]
             r  == eliminateImplications_noNot(h1, h1[p].right)
             h2 == [r.heap EXCEPT ![p].right = r.ret]
         IN  IF h2[p].value = <<">">>
             THEN [heap |-> [h2 EXCEPT ![p].value = <<"+">>], ret |-> p]
             ELSE [heap |-> h2, ret |-> p]

RECURSIVE eliminateImplications(_, _)
eliminateImplications(h, p) ==
    IF p = NULL \/ isLeaf(h, p) THEN [heap |-> h, ret |-> p]
    ELSE LET l  == eliminateImplications(h, h[p].left)
             h1 == [l.heap EXCEPT ![p].left = l.ret]
             r  == eliminateImplications(h1, h1[p].right)
             h2 == [r.heap EXCEPT ![p].right = r.ret]
         IN  IF h2[p].value = <<">">>
             THEN LET h3 == Alloc(h2, Node(<<"~">>, NULL, NULL))
                      notLeft == Len(h3)
                  IN  [heap |-> [h3 EXCEPT ![p].value = <<"+">>,
                                           ![notLeft].left = h2[p].left,
                                           ![p].left = notLeft],
                       ret |-> p]
             ELSE [heap |-> h2, ret |-> p]

\* a negation over an atom is dropped instead of kept
RECURSIVE moveNegations_dropsNot(_, _)
moveNegations_dropsNot(h, p) ==
    IF p = NULL \/ isLeaf(h, p) THEN [heap |-> h, ret |-> p]
    ELSE IF h[p].value = <<"~">>
    THEN LET child == h[p].left IN
         IF child = NULL THEN [heap |-> h, ret |-> NULL]
         ELSE IF h[child].value = <<"~">>
         THEN moveNegations_dropsNot(h, h[child].left)
         ELSE IF h[child].value = <<"+">>
         THEN LET h1 == Alloc(h, Node(<<"*">>, NULL, NULL))
                  newNode == Len(h1)
                  h2 == Alloc(h1, Node(<<"~">>, h1[child].left, NULL))
                  l  == moveNegations_dropsNot(h2, Len(h2))
                  h3 == [l.heap EXCEPT ![newNode].left = l.ret]
                  h4 == Alloc(h3, Node(<<"~">>, h3[child].right, NULL))
                  r  == moveNegations_dropsNot(h4, Len(h4))
              IN  [heap |-> [r.heap EXCEPT ![newNode].right = r.ret],
                   ret |-> newNode]
         ELSE IF h[child].value = <<"*">>
         THEN LET h1 == Alloc(h, Node(<<"+">>, NULL, NULL))
                  newNode == Len(h1)
                  h2 == Alloc(h1, Node(<<"~">>, h1[child].left, NULL))
                  l  == moveNegations_dropsNot(h2, Len(h2))
                  h3 == [l.heap EXCEPT ![newNode].left = l.ret]
                  h4 == Alloc(h3, Node(<<"~">>, h3[child].right, NULL))
                  r  == moveNegations_dropsNot(h4, Len(h4))
              IN  [heap |-> [r.heap EXCEPT ![newNode].right = r.ret],
                   ret |-> newNode]
         ELSE [heap |-> h, ret |-> child]
    ELSE LET l  == moveNegations_dropsNot(h, h[p].left)
             h1 == [l.heap EXCEPT ![p].left = l.ret]
             r  == moveNegations_dropsNot(h1, h1[p].right)
         IN  [heap |-> [r.heap EXCEPT ![p].right = r.ret], ret |-> p]

RECURSIVE moveNegations(_, _)
moveNegations(h, p) ==
    IF p = NULL \/ isLeaf(h, p) THEN [heap |-> h, ret |-> p]
    ELSE IF h[p].value = <<"~">>
    THEN LET child == h[p].left IN
         IF child = NULL THEN [heap |-> h, ret |-> NULL]
         ELSE IF h[child].value = <<"~">>
         THEN moveNegations(h, h[child].left)
         ELSE IF h[child].value = <<"+">>
         THEN LET h1 == Alloc(h, Node(<<"*">>, NULL, NULL))
                  newNode == Len(h1)
                  h2 == Alloc(h1, Node(<<"~">>, h1[child].left, NULL))
                  l  == moveNegations(h2, Len(h2))
                  h3 == [l.heap EXCEPT ![newNode].left = l.ret]
                  h4 == Alloc(h3, Node(<<"~">>, h3[child].right, NULL))
                  r  == moveNegations(h4, Len(h4))
              IN  [heap |-> [r.heap EXCEPT ![newNode].right = r.ret],
                   ret |-> newNode]
         ELSE IF h[child].value = <<"*">>
         THEN LET h1 == Alloc(h, Node(<<"+">>, NULL, NULL))
                  newNode == Len(h1)
                  h2 == Alloc(h1, Node(<<"~">>, h1[child].left, NULL))
                  l  == moveNegations(h2, Len(h2))
                  h3 == [l.heap EXCEPT ![newNode].left = l.ret]
                  h4 == Alloc(h3, Node(<<"~">>, h3[child].right, NULL))
                  r  == moveNegations(h4, Len(h4))
              IN  [heap |-> [r.heap EXCEPT ![newNode].right = r.ret],
                   ret |-> newNode]
         ELSE [heap |-> h, ret |-> p]
    ELSE LET l  == moveNegations(h, h[p].left)
             h1 == [l.heap EXCEPT ![p].left = l.ret]
             r  == moveNegations(h1, h1[p].right)
         IN  [heap |-> [r.heap EXCEPT ![p].right = r.ret], ret |-> p]

\* distribution with Case 2 (an AND on the right of an OR) left out
RECURSIVE distributeOrOverAnd_leftOnly(_, _)
distributeOrOverAnd_leftOnly(h, p) ==
    IF p = NULL \/ isLeaf(h, p) THEN [heap |-> h, ret |-> p]
    ELSE LET l  == distributeOrOverAnd_leftOnly(h, h[p].left)
             h1 == [l.heap EXCEPT ![p].left = l.ret]
             r  == distributeOrOverAnd_leftOnly(h1, h1[p].right)
             h2 == [r.heap EXCEPT ![p].right = r.ret]
             A  == h2[p].left
             B  == h2[p].right
         IN  IF h2[p].value = <<"+">> /\ h2[A].value = <<"*">>
             THEN LET h3 == Alloc(h2, Node(<<"*">>, NULL, NULL))
                      newNode == Len(h3)
                      h4 == Alloc(h3, Node(<<"+">>, h3[A].left, B))
                      dl == distributeOrOverAnd_leftOnly(h4, Len(h4))
                      h5 == [dl.heap EXCEPT ![newNode].left = dl.ret]
                      h6 == Alloc(h5, Node(<<"+">>, h5[A].right, B))
                      dr == distributeOrOverAnd_leftOnly(h6, Len(h6))
                  IN  [heap |-> [dr.heap EXCEPT ![newNode].right = dr.ret],
                       ret |-> newNode]
             ELSE [heap |-> h2, ret |-> p]

RECURSIVE distributeOrOverAnd(_, _)
distributeOrOverAnd(h, p) ==
    IF p = NULL \/ isLeaf(h, p) THEN [heap |-> h, ret |-> p]
    ELSE LET l  == distributeOrOverAnd(h, h[p].left)
             h1 == [l.heap EXCEPT ![p].left = l.ret]
             r  == distributeOrOverAnd(h1, h1[p].right)
             h2 == [r.heap EXCEPT ![p].right = r.ret]
             A  == h2[p].left
             B  == h2[p].right
         IN  IF h2[p].value = <<"+">> /\ h2[A].value = <<"*">>
             THEN LET h3 == Alloc(h2, Node(<<"*">>, NULL, NULL))
                      newNode == Len(h3)
                      h4 == Alloc(h3, Node(<<"+">>, h3[A].left, B))
                      dl == distributeOrOverAnd(h4, Len(h4))
                      h5 == [dl.heap EXCEPT ![newNode].left = dl.ret]
                      h6 == Alloc(h5, Node(<<"+">>, h5[A].right, B))
                      dr == distributeOrOverAnd(h6, Len(h6))
                  IN  [heap |-> [dr.heap EXCEPT ![newNode].right = dr.ret],
                       ret |-> newNode]
             ELSE IF h2[p].value = <<"+">> /\ h2[B].value = <<"*">>
             THEN LET h3 == Alloc(h2, Node(<<"*">>, NULL, NULL))
                      newNode == Len(h3)
                      h4 == Alloc(h3, Node(<<"+">>, A, h3[B].left))
                      dl == distributeOrOverAnd(h4, Len(h4))
                      h5 == [dl.heap EXCEPT ![newNode].left = dl.ret]
                      h6 == Alloc(h5, Node(<<"+">>, A, h5[B].right))
                      dr == distributeOrOverAnd(h6, Len(h6))
                  IN  [heap |-> [dr.heap EXCEPT ![newNode].right = dr.ret],
                       ret |-> newNode]
             ELSE [heap |-> h2, ret |-> p]

convertToCNF(h, p) ==
    LET e == eliminateImplications(h, p)
        m == moveNegations(e.heap, e.ret)
    IN  distributeOrOverAnd(m.heap, m.ret)

-----------------------------------------------------------------------------
(* getLiterals, collectClauses *)

\* a negated atom collected without its ~
RECURSIVE getLiterals_unsigned(_, _, _)
getLiterals_unsigned(h, p, literals) ==
    IF p = NULL THEN literals
    ELSE IF h[p].value = <<"+">>
    THEN getLiterals_unsigned(h, h[p].right,
                              getLiterals_unsigned(h, h[p].left, literals))
    ELSE IF h[p].value = <<"~">>
    THEN Append(literals, h[h[p].left].value)
    ELSE Append(literals, h[p].value)

RECURSIVE getLiterals(_, _, _)
getLiterals(h, p, literals) ==
    IF p = NULL THEN literals
    ELSE IF h[p].value = <<"+">>
    THEN getLiterals(h, h[p].right, getLiterals(h, h[p].left, literals))
    ELSE IF h[p].value = <<"~">>
    THEN Append(literals, <<"~">> \o h[h[p].left].value)
    ELSE Append(literals, h[p].value)

RECURSIVE collectClauses(_, _, _)
collectClauses(h, p, cls) ==
    IF p = NULL THEN cls
    ELSE IF h[p].value = <<"*">>
    THEN collectClauses(h, h[p].right, collectClauses(h, h[p].left, cls))
    ELSE Append(cls, getLiterals(h, p, <<>>))

-----------------------------------------------------------------------------
(* analyzeCNFValidity *)

\* the negation computed as "~" + literal whatever the literal is
negation_prepend(literal) == <<"~">> \o literal

\* the negation the loop computes for a literal; literal[0] of an empty
\* string is the terminating '\0'
negation(literal) ==
    IF Len(literal) > 0 /\ literal[1] = "~"
    THEN SubSeq(literal, 2, Len(literal))
    ELSE <<"~">> \o literal

\* the inner for loop from the i-th literal with the set built so far: the
\* final value of clauseIsTautology
RECURSIVE clauseIsTautology(_, _, _)
clauseIsTautology(clause, i, literalsInClause) ==
    IF i > Len(clause) THEN FALSE
    ELSE IF negation(clause[i]) \in literalsInClause THEN TRUE
    ELSE clauseIsTautology(clause, i + 1, literalsInClause \cup {clause[i]})

\* the outer for loop from the i-th clause with the two counters so far
RECURSIVE CountFrom(_, _, _, _)
CountFrom(cls, i, valid, invalid) ==
    IF i > Len(cls)
    THEN [valid_count |-> valid, invalid_count |-> invalid,
          ret |-> (invalid = 0)]
    ELSE IF clauseIsTautology(cls[i], 1, {})
         THEN CountFrom(cls, i + 1, valid + 1, invalid)
         ELSE CountFrom(cls, i + 1, valid, invalid + 1)

analyzeCNFValidity(cls) ==
    IF cls = <<>>
    THEN [valid_count |-> 0, invalid_count |-> 0, ret |-> TRUE]
    ELSE CountFrom(cls, 1, 0, 0)

-----------------------------------------------------------------------------
(* Inputs.  A formula is also written as a tree of records, to state what
   a text, a prefix sequence or a heap denotes. *)

Atoms == {<<"a">>, <<"b">>}

BinOps == {<<"*">>, <<"+">>, <<">">>}

Leaf(a) == [value |-> a, kids |-> <<>>]

Un(t) == [value |-> <<"~">>, kids |-> <<t>>]

Bin(op, l, r) == [value |-> op, kids |-> <<l, r>>]

\* <<T1, ..., Tn>> where Tk is the set of the fully parenthesised texts,
\* spaced as toInfix spaces them, of the formulas with exactly k nodes
RECURSIVE TextSets(_)
TextSets(n) ==
    IF n = 0 THEN <<>>
    ELSE LET prev == TextSets(n - 1)
         IN  Append(prev,
                 IF n = 1 THEN Atoms
                 ELSE {<<"(", "~">> \o t \o <<")">> : t \in prev[n - 1]}
                      \cup UNION {{<<"(">> \o l \o <<" ">> \o op \o <<" ">>
                                      \o r \o <<")">> :
                                      op \in BinOps,
                                      l \in prev[k],
                                      r \in prev[n - 1 - k]} :
                                  k \in 1..(n - 2)})

FormulaTextsUpTo(n) == LET ts == TextSets(n) IN UNION {ts[k] : k \in 1..n}

\* atom names whose order tells apart the order of the character codes
\* (B before a) and the order of a name and its prefix (a before a1)
TableAtoms == {<<"a">>, <<"a", "1">>, <<"B">>}

\* TextSets over TableAtoms
RECURSIVE TableTextSets(_)
TableTextSets(n) ==
    IF n = 0 THEN <<>>
    ELSE LET prev == TableTextSets(n - 1)
         IN  Append(prev,
                 IF n = 1 THEN TableAtoms
                 ELSE {<<"(", "~">> \o t \o <<")">> : t \in prev[n - 1]}
                      \cup UNION {{<<"(">> \o l \o <<" ">> \o op \o <<" ">>
                                      \o r \o <<")">> :
                                      op \in BinOps,
                                      l \in prev[k],
                                      r \in prev[n - 1 - k]} :
                                  k \in 1..(n - 2)})

TableTextsUpTo(n) ==
    LET ts == TableTextSets(n) IN UNION {ts[k] : k \in 1..n}

\* one-character atom names
NameChars ==
    <<"a", "b", "c", "d", "e", "f", "g", "h", "i", "j", "k", "l", "m", "n",
      "o", "p", "q", "r", "s", "t", "u", "v", "w", "x", "y", "z",
      "A", "B", "C", "D", "E", "F", "G", "H", "I", "J", "K", "L", "M", "N">>

\* a formula over the lo-th to the hi-th name, each once, as a balanced
\* tree of + nodes: a, (a+b), ((a+b)+c), ((a+b)+(c+d)), ...
RECURSIVE WideText(_, _)
WideText(lo, hi) ==
    IF lo = hi THEN <<NameChars[lo]>>
    ELSE LET mid == (lo + hi) \div 2
         IN  <<"(">> \o WideText(lo, mid) \o <<"+">> \o WideText(mid + 1, hi)
             \o <<")">>

\* what Task 1 and Task 2 make of that text.  Every character is a token;
\* in the prefix sequence a + comes before its two operands;
\* buildParseTree reads the prefix sequence from its end, so it allocates
\* the nodes of the right operand, then those of the left, then the +
WideTokens(lo, hi) ==
    LET text == WideText(lo, hi) IN [j \in 1..Len(text) |-> <<text[j]>>]

RECURSIVE WidePrefix(_, _)
WidePrefix(lo, hi) ==
    IF lo = hi THEN <<<<NameChars[lo]>>>>
    ELSE LET mid == (lo + hi) \div 2
         IN  <<<<"+">>>> \o WidePrefix(lo, mid) \o WidePrefix(mid + 1, hi)

\* the nodes of that tree when `base` nodes were allocated before them: the
\* root is the last one
RECURSIVE WideNodes(_, _, _)
WideNodes(base, lo, hi) ==
    IF lo = hi THEN <<Node(<<NameChars[lo]>>, NULL, NULL)>>
    ELSE LET mid   == (lo + hi) \div 2
             right == 2 * (hi - mid) - 1
             left  == 2 * (mid - lo + 1) - 1
         IN  WideNodes(base, mid + 1, hi)
             \o WideNodes(base + right, lo, mid)
             \o <<Node(<<"+">>, base + right + left, base + right)>>

\* every sequence over A of length at most n
SeqsUpTo(A, n) == UNION {[1..k -> A] : k \in 0..n}

\* raw texts: unparenthesised operator texts, texts with parentheses
\* (balanced or not), and texts with spaces, underscores and digits
Alphabets ==
    {{"a", "b", "~", "*", "+", ">"},
     {"a", "(", ")", "+", "~"},
     {"a", "1", "_", " ", "+"}}

RawTextsUpTo(n) == UNION {SeqsUpTo(A, n) : A \in Alphabets}

PrefixTokens == {<<"a">>, <<"b">>, <<"~">>, <<"*">>, <<">">>}

PrefixInputsUpTo(n) == SeqsUpTo(PrefixTokens, n)

Literals == {<<"a">>, <<"~", "a">>, <<"b">>, <<"~", "b">>}

\* every list of at most c clauses holding at most l literals in all
RECURSIVE ClauseListsOf(_, _)
ClauseListsOf(c, l) ==
    {<<>>} \cup
    (IF c = 0 THEN {}
     ELSE UNION {{<<cl>> \o rest : cl \in [1..k -> Literals],
                                   rest \in ClauseListsOf(c - 1, l - k)} :
                 k \in 0..l})

\* every map from some of the atoms to booleans: what the user may enter
Assignments == UNION {[D -> BOOLEAN] : D \in SUBSET Atoms}

CompleteAssignments == [Atoms -> BOOLEAN]

-----------------------------------------------------------------------------
(* The run of main(): Task 1 to Task 7 in order. *)

Blank ==
    /\ tokens = <<>>
    /\ heap = <<>>
    /\ root = NULL
    /\ inOrder = <<>>
    /\ assignment = <<>>
    /\ result = NoResult
    /\ table = NoTable
    /\ cnfRoot = NULL
    /\ valid_count = 0
    /\ invalid_count = 0
    /\ all_valid = FALSE

InitText ==
    /\ pc = "start"
    /\ expr \in RawTextsUpTo(MaxLen)
    /\ prefix = <<>>
    /\ clauses = <<>>
    /\ Blank

InitFormula ==
    /\ pc = "start"
    /\ expr \in FormulaTextsUpTo(MaxNodes)
    /\ prefix = <<>>
    /\ clauses = <<>>
    /\ Blank

\* a formula whose truth table is asked for: a formula over TableAtoms
\* before Task 1, or a formula with as many atoms as an int has bits, less
\* one, or more, after Task 2
InitTable ==
    \/ /\ pc = "start"
       /\ expr \in TableTextsUpTo(MaxTableNodes)
       /\ prefix = <<>>
       /\ clauses = <<>>
       /\ Blank
    \/ \E k \in (IntBits - 1)..MaxAtoms :
          /\ pc = "built"
          /\ expr = WideText(1, k)
          /\ tokens = WideTokens(1, k)
          /\ prefix = WidePrefix(1, k)
          /\ heap = WideNodes(0, 1, k)
          /\ root = 2 * k - 1
          /\ inOrder = <<>>
          /\ assignment = <<>>
          /\ result = NoResult
          /\ table = NoTable
          /\ cnfRoot = NULL
          /\ clauses = <<>>
          /\ valid_count = 0
          /\ invalid_count = 0
          /\ all_valid = FALSE

\* buildParseTree called on an arbitrary token vector
InitPrefix ==
    /\ pc = "prefix"
    /\ expr = <<>>
    /\ prefix \in PrefixInputsUpTo(MaxTokens)
    /\ clauses = <<>>
    /\ Blank

\* analyzeCNFValidity called on an arbitrary clause list
InitClauses ==
    /\ pc = "collected"
    /\ expr = <<>>
    /\ prefix = <<>>
    /\ clauses \in ClauseListsOf(MaxClauses, MaxLits)
    /\ Blank

InfixToPrefix ==
    /\ pc = "start"
    /\ tokens' = tokenize(expr)
    /\ prefix' = infixToPrefix(expr)
    /\ pc' = "prefix"
    /\ UNCHANGED <<expr, heap, root, inOrder, assignment, result, cnfRoot,
                   clauses, valid_count, invalid_count, all_valid,
                   table>>

BuildParseTree ==
    /\ pc = "prefix"
    /\ LET b == buildParseTree(heap, prefix)
       IN  /\ heap' = b.heap
           /\ root' = b.ret
           /\ pc' = IF b.ret = NULL THEN "failed" ELSE "built"
    /\ UNCHANGED <<expr, tokens, prefix, inOrder, assignment, result, cnfRoot,
                   clauses, valid_count, invalid_count, all_valid,
                   table>>

ToInfix ==
    /\ pc = "built"
    /\ inOrder' = toInfix(heap, root)
    /\ pc' = "rendered"
    /\ UNCHANGED <<expr, tokens, prefix, heap, root, assignment, result,
                   cnfRoot, clauses, valid_count, invalid_count, all_valid,
                   table>>

\* evaluate called on the tree with a map of some of the atoms (main calls
\* it when the user entered at least one atom; an uncaught out_of_range
\* ends the run)
Evaluate ==
    /\ pc = "rendered"
    /\ \E values \in Assignments :
          /\ assignment' = values
          /\ result' = evaluate(heap, root, values)
    /\ pc' = IF result'.status = "throw" THEN "aborted" ELSE "evaluated"
    /\ UNCHANGED <<expr, tokens, prefix, heap, root, inOrder, cnfRoot,
                   clauses, valid_count, invalid_count, all_valid,
                   table>>

\* the user answered y; masked tells which of the two results the build
\* gives for a shift by IntBits or more
GenerateTruthTable ==
    /\ pc = "rendered"
    /\ \E masked \in BOOLEAN :
          table' = generateTruthTable(heap, root, masked)
    /\ pc' = "tabled"
    /\ UNCHANGED <<expr, tokens, prefix, heap, root, inOrder, assignment,
                   result, cnfRoot, clauses, valid_count, invalid_count,
                   all_valid>>

ConvertToCNF ==
    /\ pc \in {"rendered", "evaluated"}
    /\ LET c == convertToCNF(heap, root)
       IN  /\ heap' = c.heap
           /\ cnfRoot' = c.ret
    /\ pc' = "converted"
    /\ UNCHANGED <<expr, tokens, prefix, root, inOrder, assignment, result,
                   clauses, valid_count, invalid_count, all_valid,
                   table>>

\* convertToCNF called on the tree convertToCNF returned
ConvertToCNFAgain ==
    /\ pc = "converted"
    /\ LET c == convertToCNF(heap, cnfRoot)
       IN  /\ heap' = c.heap
           /\ cnfRoot' = c.ret
    /\ pc' = "reconverted"
    /\ UNCHANGED <<expr, tokens, prefix, root, inOrder, assignment, result,
                   clauses, valid_count, invalid_count, all_valid,
                   table>>

CollectClauses ==
    /\ pc = "converted"
    /\ clauses' = collectClauses(heap, cnfRoot, <<>>)
    /\ pc' = "collected"
    /\ UNCHANGED <<expr, tokens, prefix, heap, root, inOrder, assignment,
                   result, cnfRoot, valid_count, invalid_count, all_valid,
                   table>>

AnalyzeCNFValidity ==
    /\ pc = "collected"
    /\ LET r == analyzeCNFValidity(clauses)
       IN  /\ valid_count' = r.valid_count
           /\ invalid_count' = r.invalid_count
           /\ all_valid' = r.ret
    /\ pc' = "done"
    /\ UNCHANGED <<expr, tokens, prefix, heap, root, inOrder, assignment,
                   result, cnfRoot, clauses,
                   table>>

\* raw text through Task 1 to Task 3
NextText == InfixToPrefix \/ BuildParseTree \/ ToInfix

SpecText == InitText /\ [][NextText]_vars

\* a rendered formula through Task 1 to Task 3 and Task 6 and 7
NextFormula ==
    \/ InfixToPrefix
    \/ BuildParseTree
    \/ ToInfix
    \/ ConvertToCNF
    \/ CollectClauses
    \/ AnalyzeCNFValidity

SpecFormula == InitFormula /\ [][NextFormula]_vars

\* a rendered formula through Task 1 to Task 3 and Task 5
NextEval == InfixToPrefix \/ BuildParseTree \/ ToInfix \/ Evaluate

SpecEval == InitFormula /\ [][NextEval]_vars

\* a rendered formula through Task 1 to Task 3, then converted twice
NextTwice ==
    \/ InfixToPrefix
    \/ BuildParseTree
    \/ ToInfix
    \/ ConvertToCNF
    \/ ConvertToCNFAgain

SpecTwice == InitFormula /\ [][NextTwice]_vars

\* a formula through Task 1 to Task 3 and the truth table
NextTable == InfixToPrefix \/ BuildParseTree \/ ToInfix \/ GenerateTruthTable

SpecTable == InitTable /\ [][NextTable]_vars

NextPrefix == BuildParseTree \/ ToInfix

SpecPrefix == InitPrefix /\ [][NextPrefix]_vars

NextClauses == AnalyzeCNFValidity

SpecClauses == InitClauses /\ [][NextClauses]_vars

-----------------------------------------------------------------------------
(* What a heap, a text and a prefix sequence denote. *)

\* the formula rooted at p, read off the heap
RECURSIVE TreeOf(_, _)
TreeOf(h, p) ==
    IF isLeaf(h, p) THEN Leaf(h[p].value)
    ELSE IF h[p].right = NULL
    THEN [value |-> h[p].value, kids |-> <<TreeOf(h, h[p].left)>>]
    ELSE Bin(h[p].value, TreeOf(h, h[p].left), TreeOf(h, h[p].right))

\* the truth value of a formula under an assignment of all its atoms
RECURSIVE Holds(_, _)
Holds(t, v) ==
    IF Len(t.kids) = 0 THEN v[t.value]
    ELSE IF t.value = <<"~">> THEN ~Holds(t.kids[1], v)
    ELSE IF t.value = <<"*">> THEN Holds(t.kids[1], v) /\ Holds(t.kids[2], v)
    ELSE IF t.value = <<"+">> THEN Holds(t.kids[1], v) \/ Holds(t.kids[2], v)
    ELSE Holds(t.kids[1], v) => Holds(t.kids[2], v)

\* every node reachable from p
RECURSIVE Reach(_, _)
Reach(h, p) ==
    IF p = NULL THEN {}
    ELSE {p} \cup Reach(h, h[p].left) \cup Reach(h, h[p].right)

Chars(s) == {s[i] : i \in 1..Len(s)}

Malformed == [ok |-> FALSE, tree |-> Leaf(<<>>), next |-> 0]

CharAt(s, i) == IF i \in 1..Len(s) THEN s[i] ELSE ""

RECURSIVE SkipSpaces(_, _)
SkipSpaces(s, i) ==
    IF i <= Len(s) /\ s[i] \in SpaceChars THEN SkipSpaces(s, i + 1) ELSE i

RECURSIVE NameEnd(_, _)
NameEnd(s, i) ==
    IF i <= Len(s) /\ s[i] \in AlnumChars \cup {"_"}
    THEN NameEnd(s, i + 1)
    ELSE i

\* the formula a fully parenthesised text denotes, read left to right from
\* index i:  F ::= name | ( ~ F ) | ( F op F )
RECURSIVE ReadFormula(_, _)
ReadFormula(s, i0) ==
    LET i == SkipSpaces(s, i0) IN
    IF CharAt(s, i) = "("
    THEN LET j == SkipSpaces(s, i + 1) IN
         IF CharAt(s, j) = "~"
         THEN LET f == ReadFormula(s, j + 1)
                  k == SkipSpaces(s, f.next)
              IN  IF f.ok /\ CharAt(s, k) = ")"
                  THEN [ok |-> TRUE, tree |-> Un(f.tree), next |-> k + 1]
                  ELSE Malformed
         ELSE LET l == ReadFormula(s, j)
                  o == SkipSpaces(s, l.next)
                  r == ReadFormula(s, o + 1)
                  k == SkipSpaces(s, r.next)
              IN  IF l.ok /\ <<CharAt(s, o)>> \in BinOps /\ r.ok
                     /\ CharAt(s, k) = ")"
                  THEN [ok |-> TRUE,
                        tree |-> Bin(<<CharAt(s, o)>>, l.tree, r.tree),
                        next |-> k + 1]
                  ELSE Malformed
    ELSE IF CharAt(s, i) \in AlnumChars \cup {"_"}
    THEN LET e == NameEnd(s, i)
         IN  [ok |-> TRUE, tree |-> Leaf(SubSeq(s, i, e - 1)), next |-> e]
    ELSE Malformed

Denotes(s) ==
    LET f == ReadFormula(s, 1)
    IN  IF f.ok /\ SkipSpaces(s, f.next) = Len(s) + 1 THEN f ELSE Malformed

\* the formula a prefix token sequence denotes, read left to right from
\* index i: an operator is followed by its operands, first operand first
RECURSIVE ReadPrefix(_, _)
ReadPrefix(pre, i) ==
    IF i > Len(pre) THEN Malformed
    ELSE IF pre[i] = <<"~">>
    THEN LET f == ReadPrefix(pre, i + 1)
         IN  IF f.ok THEN [ok |-> TRUE, tree |-> Un(f.tree), next |-> f.next]
             ELSE Malformed
    ELSE IF pre[i] \in BinOps
    THEN LET l == ReadPrefix(pre, i + 1)
             r == IF l.ok THEN ReadPrefix(pre, l.next) ELSE Malformed
         IN  IF r.ok
             THEN [ok |-> TRUE, tree |-> Bin(pre[i], l.tree, r.tree),
                   next |-> r.next]
             ELSE Malformed
    ELSE [ok |-> TRUE, tree |-> Leaf(pre[i]), next |-> i + 1]

PrefixDenotes(pre) ==
    LET f == ReadPrefix(pre, 1)
    IN  IF f.ok /\ f.next = Len(pre) + 1 THEN f ELSE Malformed

-----------------------------------------------------------------------------
(* C1 to C3 *)

\* C1: CNF conversion preserves meaning: under every complete assignment the
\* tree convertToCNF returns evaluates to the boolean the tree handed to it
\* evaluated to before the conversion.
C1_CNFPreservesMeaning ==
    [][pc' = "converted" /\ pc # "converted" =>
          \A v \in CompleteAssignments :
              evaluate(heap', cnfRoot', v) = evaluate(heap, root, v)]_vars

\* a conversion that eliminated an implication, moved a negation and
\* distributed: the result is a new AND node
C1_Witness ==
    /\ pc = "converted"
    /\ {">", "~"} \subseteq Chars(expr)
    /\ cnfRoot # root
    /\ heap[cnfRoot].value = <<"*">>

IsAtomLeaf(h, p) == p # NULL /\ isLeaf(h, p) /\ ~isOperator(h[p].value)

\* no > node, every ~ node has an atom leaf as its only child, and no * node
\* lies beneath a + node or a ~ node
IsCNF(h, p) ==
    \A n \in Reach(h, p) :
        /\ h[n].value # <<">">>
        /\ h[n].value = <<"~">> =>
               IsAtomLeaf(h, h[n].left) /\ h[n].right = NULL
        /\ h[n].value \in {<<"+">>, <<"~">>} =>
               \A m \in Reach(h, n) : h[m].value # <<"*">>

\* C2: the tree convertToCNF returns is an AND of ORs of literals.
C2_ResultIsCNF ==
    pc \in {"converted", "collected", "done"} => IsCNF(heap, cnfRoot)

\* an OR with an AND on each side was distributed into AND nodes over OR
\* nodes over literals, one of them negated
C2_Witness ==
    /\ pc = "converted"
    /\ heap[root].value = <<"+">>
    /\ heap[cnfRoot].value = <<"*">>
    /\ heap[heap[cnfRoot].left].value = <<"*">>
    /\ heap[heap[cnfRoot].right].value = <<"*">>
    /\ \E n \in Reach(heap, cnfRoot) : heap[n].value = <<"~">>

AtomChars == {"a", "b"}

\* the pairs <<o1, o2>> of binary operators with o1 binding tighter than o2
TighterPairs == {<<"*", "+">>, <<"*", ">">>, <<"+", ">">>}

Built == pc \in {"built", "rendered"}

Parsed == pc \in {"built", "rendered", "failed"}

\* C3: precedence decides the grouping of unparenthesised input: with o1
\* tighter than o2, "x o1 y o2 z" builds ((x o1 y) o2 z) and "x o2 y o1 z"
\* builds (x o2 (y o1 z)); "~x o y" builds ((~x) o y) and "x o ~y" builds
\* (x o (~y)).
C3_PrecedenceGroups ==
    Parsed =>
      \A x, y, z \in AtomChars :
        /\ \A q \in TighterPairs :
             /\ expr = <<x, q[1], y, q[2], z>> =>
                  /\ Built
                  /\ TreeOf(heap, root) =
                       Bin(<<q[2]>>, Bin(<<q[1]>>, Leaf(<<x>>), Leaf(<<y>>)),
                           Leaf(<<z>>))
             /\ expr = <<x, q[2], y, q[1], z>> =>
                  /\ Built
                  /\ TreeOf(heap, root) =
                       Bin(<<q[2]>>, Leaf(<<x>>),
                           Bin(<<q[1]>>, Leaf(<<y>>), Leaf(<<z>>)))
        /\ \A o \in {"*", "+", ">"} :
             /\ expr = <<"~", x, o, y>> =>
                  /\ Built
                  /\ TreeOf(heap, root) =
                       Bin(<<o>>, Un(Leaf(<<x>>)), Leaf(<<y>>))
             /\ expr = <<x, o, "~", y>> =>
                  /\ Built
                  /\ TreeOf(heap, root) =
                       Bin(<<o>>, Leaf(<<x>>), Un(Leaf(<<y>>)))

\* "a+b*a" was built with + at the root and the * node as its right child
C3_Witness ==
    /\ pc = "built"
    /\ expr = <<"a", "+", "b", "*", "a">>
    /\ heap[root].value = <<"+">>
    /\ heap[heap[root].right].value = <<"*">>

-----------------------------------------------------------------------------
(* C4 to C10 *)

\* C4: implication is right-associative: "x>y>z" is converted to the prefix
\* sequence > x > y z and built as x > (y > z).
C4_ImplicationRightAssociative ==
    \A x, y, z \in AtomChars :
        expr = <<x, ">", y, ">", z>> =>
            /\ pc # "start" =>
                 prefix = <<<<">">>, <<x>>, <<">">>, <<y>>, <<z>>>>
            /\ Parsed =>
                 /\ Built
                 /\ TreeOf(heap, root) =
                      Bin(<<">">>, Leaf(<<x>>),
                          Bin(<<">">>, Leaf(<<y>>), Leaf(<<z>>)))

\* C5: round trip: the text of a fully parenthesised formula is built into a
\* tree, and the rendering of that tree denotes a formula with the truth
\* value of the formula the text denotes, under every assignment.
C5_RoundTrip ==
    /\ pc # "failed"
    /\ pc = "rendered" =>
         LET d == Denotes(inOrder)
             o == Denotes(expr)
         IN  /\ o.ok
             /\ d.ok
             /\ \A v \in CompleteAssignments :
                    Holds(d.tree, v) = Holds(o.tree, v)

\* a formula with an implication and a negation came back as the same text
C5_Witness ==
    /\ pc = "rendered"
    /\ {">", "~", "*"} \subseteq Chars(expr)
    /\ inOrder = expr

\* a clause holds some literal together with its negation
HasComplementaryPair(clause) ==
    \E i, j \in 1..Len(clause) : clause[i] = <<"~">> \o clause[j]

\* C6: valid_count is the number of clauses with a complementary pair,
\* invalid_count the number of the others, and the verdict is true exactly
\* when there are no others (so also for the empty list).
C6_ClausesClassified ==
    pc = "done" =>
        LET taut == {i \in 1..Len(clauses) : HasComplementaryPair(clauses[i])}
        IN  /\ valid_count = Cardinality(taut)
            /\ invalid_count = Len(clauses) - Cardinality(taut)
            /\ all_valid = (Cardinality(taut) = Len(clauses))

\* a list of two clauses: a pair with the negated literal first, and a
\* clause without a pair
C6_Witness ==
    /\ pc = "done"
    /\ Len(clauses) = 2
    /\ clauses[1] = <<<<"~", "a">>, <<"a">>>>
    /\ valid_count = 1
    /\ invalid_count = 1
    /\ ~all_valid

Evaluated == pc \in {"evaluated", "aborted"}

\* the first atom evaluate looks up
RECURSIVE LeftmostAtom(_, _)
LeftmostAtom(h, p) ==
    IF isLeaf(h, p) THEN h[p].value ELSE LeftmostAtom(h, h[p].left)

\* C7 as stated: an assignment that lacks an atom of the tree makes
\* evaluate fail.
C7_MissingAtomAlwaysFails ==
    Evaluated /\ ~(collectAtoms(heap, root) \subseteq DOMAIN assignment)
        => result = Thrown

\* C7 amended: an assignment that lacks the first atom evaluate looks up
\* makes evaluate fail; and when evaluate returns a boolean although atoms
\* are missing, the boolean is the tree's value under every completion of
\* the assignment.
C7_MissingLookedUpAtomFails ==
    Evaluated =>
        /\ LeftmostAtom(heap, root) \notin DOMAIN assignment => result = Thrown
        /\ result.status = "value" =>
             \A w \in CompleteAssignments :
                 (\A x \in DOMAIN assignment : w[x] = assignment[x]) =>
                     Holds(TreeOf(heap, root), w) = result.val

\* the assignment gives a value to one atom of the tree and lacks the
\* leftmost one: the evaluation threw
C7_Witness ==
    /\ pc = "aborted"
    /\ result = Thrown
    /\ DOMAIN assignment # {}
    /\ DOMAIN assignment \subseteq collectAtoms(heap, root)
    /\ LeftmostAtom(heap, root) \notin DOMAIN assignment

\* C8: buildParseTree returns no tree exactly when the token sequence is
\* not one well-formed prefix expression, and otherwise the tree the
\* sequence denotes, first operand as left child.
C8_BuildsExactlyWellFormedPrefix ==
    Parsed =>
        LET d == PrefixDenotes(prefix)
        IN  IF d.ok
            THEN root # NULL /\ TreeOf(heap, root) = d.tree
            ELSE root = NULL

\* > * a b a was built: the * node is the left child, the atom a the right
C8_Witness ==
    /\ pc = "built"
    /\ prefix = <<<<">">>, <<"*">>, <<"a">>, <<"b">>, <<"a">>>>
    /\ heap[heap[root].left].value = <<"*">>
    /\ heap[heap[root].right].value = <<"a">>

\* C9: whatever the input, the prefix sequence infixToPrefix returns holds
\* no parenthesis token.
C9_NoParenthesisInPrefix ==
    pc # "start" =>
        \A i \in 1..Len(prefix) : prefix[i] \notin {<<"(">>, <<")">>}

\* the tokens C10 describes: every maximal run of alphanumeric characters
\* and underscores is one token, every other non-space character is one
RECURSIVE RunTokens(_, _, _)
RunTokens(s, i, toks) ==
    IF i > Len(s) THEN toks
    ELSE IF s[i] \in SpaceChars THEN RunTokens(s, i + 1, toks)
    ELSE IF s[i] \in AlnumChars \cup {"_"}
         THEN LET e == NameEnd(s, i)
              IN  RunTokens(s, e, Append(toks, SubSeq(s, i, e - 1)))
         ELSE RunTokens(s, i + 1, Append(toks, <<s[i]>>))

RECURSIVE Concat(_)
Concat(toks) ==
    IF toks = <<>> THEN <<>> ELSE Head(toks) \o Concat(Tail(toks))

\* C10: tokenize gives one token for every maximal run of alphanumeric
\* characters and underscores, one for every other non-space character, and
\* the tokens concatenated are the input without its whitespace.
C10_TokensAreMaximalRuns ==
    pc # "start" =>
        /\ tokens = RunTokens(expr, 1, <<>>)
        /\ Concat(tokens) = SelectSeq(expr, LAMBDA c : c \notin SpaceChars)

-----------------------------------------------------------------------------
(* C11 *)

\* the tree a conversion step is about to be handed
Given == IF pc = "converted" THEN cnfRoot ELSE root

\* C11: whenever convertToCNF is handed a tree that is already in CNF (a
\* built tree that happens to be in CNF, or the tree an earlier conversion
\* returned), collectClauses extracts from the tree it returns the clause
\* list it extracted from the tree handed in: same clauses, same literals.
C11_IdempotentOnClauses ==
    [][(pc' \in {"converted", "reconverted"} /\ pc' # pc
           /\ IsCNF(heap, Given)) =>
          collectClauses(heap', cnfRoot', <<>>)
              = collectClauses(heap, Given, <<>>)]_vars

\* a second conversion of a tree that the first conversion distributed into
\* at least two clauses, one of them holding a negated literal
C11_Witness ==
    /\ pc = "reconverted"
    /\ cnfRoot # root
    /\ heap[cnfRoot].value = <<"*">>
    /\ LET cls == collectClauses(heap, cnfRoot, <<>>)
       IN  /\ Len(cls) >= 2
           /\ \E i \in 1..Len(cls) : \E k \in 1..Len(cls[i]) :
                  cls[i][k][1] = "~"

-----------------------------------------------------------------------------
(* C12 *)

\* len = 2^n
RECURSIVE IsTwoToThe(_, _)
IsTwoToThe(len, n) ==
    IF n = 0 THEN len = 1
    ELSE len > 0 /\ len % 2 = 0 /\ IsTwoToThe(len \div 2, n - 1)

\* bit k of i, for i >= 0
RECURSIVE Bit(_, _)
Bit(i, k) == IF k = 0 THEN i % 2 ELSE Bit(i \div 2, k - 1)

\* the table printed for the tree has a column for each of its n atoms, in
\* ascending order, and 2^n rows; row i gives the j-th atom bit n-1-j of
\* i, assigns every atom, and differs from every other row
TableIsComplete ==
    LET S     == collectAtoms(heap, root)
        n     == Cardinality(S)
        atoms == table.atoms
        rows  == table.rows
    IN  /\ Len(atoms) = n
        /\ {atoms[j] : j \in 1..Len(atoms)} = S
        /\ \A j, k \in 1..Len(atoms) : j < k => StringLess(atoms[j], atoms[k])
        /\ IsTwoToThe(Len(rows), n)
        /\ \A i \in 0..(Len(rows) - 1) :
               /\ DOMAIN rows[i + 1].assignment = S
               /\ \A j \in 0..(n - 1) :
                      rows[i + 1].assignment[atoms[j + 1]]
                          = (Bit(i, n - 1 - j) = 1)
        /\ \A i, k \in 1..Len(rows) :
               i # k => rows[i].assignment # rows[k].assignment

\* C12: for a tree with n >= 1 distinct atoms generateTruthTable evaluates
\* exactly 2^n rows; row i assigns to the j-th atom in ascending order bit
\* n-1-j of i, so every row's assignment is complete and no two rows have
\* the same assignment.
C12_TableHasTwoToTheNRows == pc = "tabled" => TableIsComplete

\* the same for the trees with fewer than IntBits - 1 atoms, where 1 << n
\* is 2^n
TableCompleteBelowIntBits ==
    (pc = "tabled" /\ Cardinality(collectAtoms(heap, root)) < IntBits - 1)
        => TableIsComplete

\* a table of eight rows over the three atoms B, a, a1 in that order
TableOfEightRows ==
    /\ pc = "tabled"
    /\ table.atoms = <<<<"B">>, <<"a">>, <<"a", "1">>>>
    /\ Len(table.rows) = 8
    /\ table.rows[2].vals = <<FALSE, FALSE, TRUE>>

-----------------------------------------------------------------------------
(* C13 *)

\* the child fields of the nodes reachable from p that point at node n
RefsTo(h, p, n) ==
    {<<m, side>> \in Reach(h, p) \X {"left", "right"} :
        (IF side = "left" THEN h[m].left ELSE h[m].right) = n}

\* every node reachable from p is the child of exactly one reachable node,
\* once; nothing points at p itself
IsStrictHierarchy(h, p) ==
    \A n \in Reach(h, p) :
        Cardinality(RefsTo(h, p, n)) = IF n = p THEN 0 ELSE 1

\* C13: the tree stays a strict hierarchy through CNF conversion: after
\* eliminateImplications, after moveNegations and after distributeOrOverAnd
\* every node reachable from the returned root is the child of exactly one
\* reachable node, so no subtree is shared between two live parents.
C13_StrictHierarchyAfterEveryPass ==
    [][(pc' = "converted" /\ pc # "converted") =>
          LET e == eliminateImplications(heap, root)
              m == moveNegations(e.heap, e.ret)
          IN  /\ IsStrictHierarchy(e.heap, e.ret)
              /\ IsStrictHierarchy(m.heap, m.ret)
              /\ IsStrictHierarchy(heap', cnfRoot')]_vars

\* the part of it about the first two passes
StrictHierarchyBeforeDistribution ==
    [][(pc' = "converted" /\ pc # "converted") =>
          LET e == eliminateImplications(heap, root)
              m == moveNegations(e.heap, e.ret)
          IN  /\ IsStrictHierarchy(heap, root)
              /\ IsStrictHierarchy(e.heap, e.ret)
              /\ IsStrictHierarchy(m.heap, m.ret)]_vars

\* a conversion that distributed hands back a tree in which some node has
\* two parents
SharedAfterDistribution ==
    /\ pc = "converted"
    /\ \E n \in Reach(heap, cnfRoot) :
          Cardinality(RefsTo(heap, cnfRoot, n)) = 2

-----------------------------------------------------------------------------
(* C14 *)

\* the atoms of a formula
RECURSIVE AtomsOf(_)
AtomsOf(t) ==
    IF Len(t.kids) = 0 THEN {t.value}
    ELSE UNION {AtomsOf(t.kids[k]) : k \in 1..Len(t.kids)}

\* true under every assignment of its atoms
IsTautology(t) == \A v \in [AtomsOf(t) -> BOOLEAN] : Holds(t, v)

\* C14: the verdict agrees with the truth table: analyzeCNFValidity, applied
\* to the clauses collectClauses extracts from convertToCNF(t), returns
\* true if and only if t, the tree buildParseTree returned for the prefix
\* sequence, is true under every assignment of its atoms.
C14_VerdictIsTautology ==
    pc = "done" => (all_valid <=> IsTautology(PrefixDenotes(prefix).tree))

\* a tautology with an implication whose CNF has two clauses or more was
\* found valid
C14_Witness ==
    /\ pc = "done"
    /\ all_valid
    /\ ">" \in Chars(expr)
    /\ Len(clauses) >= 2
    /\ valid_count = Len(clauses)

=============================================================================
